---- MODULE Spec2Model ----
(***************************************************************************)
(* Seasonal Display Controller of chudesnov.tech.                          *)
(*                                                                         *)
(*   season.js : getSeason / inferHemisphere / isDateInRange (pure)        *)
(*   snow.js   : window.onload orchestrator (worker messages, persisted    *)
(*               preference, storage / change / resize listeners,          *)
(*               throttle)                                                 *)
(*                                                                         *)
(* Three specifications share the variables:                               *)
(*   SpecSeason  the library API called on enumerated inputs               *)
(*   Spec        browser tabs of one origin running snow.js                *)
(*   SpecSync    the same tabs with storage events for other items         *)
(***************************************************************************)
EXTENDS Integers, Sequences, FiniteSets, TLC

(***************************************************************************)
(* JavaScript values, tagged by what typeof distinguishes.                 *)
(* A string is a sequence of one-character strings, so that toUpperCase    *)
(* and split are computed and not assumed.                                 *)
(***************************************************************************)
Undef == [t |-> "undefined", s |-> <<>>, n |-> 0]

JsNull == [t |-> "null", s |-> <<>>, n |-> 0]

NaN == [t |-> "nan", s |-> <<>>, n |-> 0]

Str(chars) == [t |-> "string", s |-> chars, n |-> 0]

Num(k) == [t |-> "number", s |-> <<>>, n |-> k]

JsTrue == [t |-> "boolean", s |-> <<>>, n |-> 1]

\* typeof v
TypeOf(v) ==
  CASE v.t = "undefined" -> "undefined"
    [] v.t = "null"      -> "object"
    [] v.t = "nan"       -> "number"
    [] v.t = "string"    -> "string"
    [] v.t = "number"    -> "number"
    [] v.t = "boolean"   -> "boolean"

\* ToBoolean(v): what `!v` and `v && ...` test
Truthy(v) ==
  CASE v.t = "undefined" -> FALSE
    [] v.t = "null"      -> FALSE
    [] v.t = "nan"       -> FALSE
    [] v.t = "string"    -> v.s # <<>>
    [] v.t = "number"    -> v.n # 0
    [] v.t = "boolean"   -> v.n = 1

\* v >= 0 for a value whose typeof is 'number' (NaN compares false)
GeqZero(v) == v.t = "number" /\ v.n >= 0

\* Outcome of a call: a returned value or a raised error
Return(x) == [kind |-> "return", value |-> x]

Throw(e) == [kind |-> "throw", value |-> e]

(***************************************************************************)
(* season.js                                                               *)
(***************************************************************************)
LowerCaseLetters ==
  <<"a","b","c","d","e","f","g","h","i","j","k","l","m",
    "n","o","p","q","r","s","t","u","v","w","x","y","z">>

UpperCaseLetters ==
  <<"A","B","C","D","E","F","G","H","I","J","K","L","M",
    "N","O","P","Q","R","S","T","U","V","W","X","Y","Z">>

ToUpperChar(c) ==
  IF \E i \in 1..26 : LowerCaseLetters[i] = c
  THEN UpperCaseLetters[CHOOSE i \in 1..26 : LowerCaseLetters[i] = c]
  ELSE c

\* String.prototype.toUpperCase
ToUpperCase(chars) == [i \in 1..Len(chars) |-> ToUpperChar(chars[i])]

southernCountryCodes ==
  { <<"A","O">>, <<"B","W">>, <<"B","I">>, <<"K","M">>, <<"L","S">>, <<"M","G">>,
    <<"M","W">>, <<"M","U">>, <<"M","Z">>, <<"N","A">>, <<"R","W">>, <<"S","C">>,
    <<"Z","A">>, <<"S","Z">>, <<"T","Z">>, <<"Z","M">>, <<"Z","W">>,
    <<"C","D">>, <<"G","A">>, <<"C","G">>,
    <<"T","L">>, <<"I","D">>,
    <<"A","U">>, <<"P","G">>,
    <<"A","R">>, <<"B","O">>, <<"C","L">>, <<"P","Y">>, <<"P","E">>, <<"U","Y">>,
    <<"B","R">>, <<"E","C">>,
    <<"A","S">>, <<"C","K">>, <<"F","J">>, <<"P","F">>, <<"N","R">>, <<"N","C">>,
    <<"N","Z">>, <<"N","U">>, <<"P","N">>, <<"W","S">>, <<"S","B">>, <<"T","K">>,
    <<"T","O">>, <<"T","V">>, <<"V","U">>, <<"W","F">>,
    <<"F","K">>, <<"S","H">>,
    <<"I","O">>, <<"Y","T">>, <<"R","E">>,
    <<"A","Q">>, <<"B","V">>, <<"T","F">>, <<"G","S">> }

\* isSouthernCountry(countryCode): a falsy argument returns false; a truthy
\* value that is no string has no toUpperCase method, and calling it raises.
isSouthernCountry(countryCode) ==
  IF ~Truthy(countryCode) THEN Return(FALSE)
  ELSE IF TypeOf(countryCode) # "string" THEN Throw("TypeError")
  ELSE Return(ToUpperCase(countryCode.s) \in southernCountryCodes)

NorthernStr == Str(<<"N","o","r","t","h","e","r","n">>)

SouthernStr == Str(<<"S","o","u","t","h","e","r","n">>)

\* inferHemisphere with the country code consulted before the coordinates
inferHemisphereCountryFirst(options) ==
  IF options.hemisphere = NorthernStr THEN Return("Northern")
  ELSE IF options.hemisphere = SouthernStr THEN Return("Southern")
  ELSE IF Truthy(options.countryCode) /\ isSouthernCountry(options.countryCode).kind = "throw"
  THEN Throw("TypeError")
  ELSE IF Truthy(options.countryCode) /\ isSouthernCountry(options.countryCode).value
  THEN Return("Southern")
  ELSE IF Truthy(options.countryCode) THEN Return("Northern")
  ELSE IF TypeOf(options.latitude) = "number" /\ TypeOf(options.longitude) = "number"
  THEN Return(IF GeqZero(options.latitude) THEN "Northern" ELSE "Southern")
  ELSE Return("Northern")

\* inferHemisphere with the explicit hemisphere consulted after the coordinates
inferHemisphereCoordinatesFirst(options) ==
  IF TypeOf(options.latitude) = "number" /\ TypeOf(options.longitude) = "number"
  THEN Return(IF GeqZero(options.latitude) THEN "Northern" ELSE "Southern")
  ELSE IF options.hemisphere = NorthernStr THEN Return("Northern")
  ELSE IF options.hemisphere = SouthernStr THEN Return("Southern")
  ELSE IF ~Truthy(options.countryCode) THEN Return("Northern")
  ELSE LET southern == isSouthernCountry(options.countryCode)
       IN  IF southern.kind = "throw" THEN southern
           ELSE IF southern.value THEN Return("Southern")
           ELSE Return("Northern")

\* inferHemisphere(options); the hemisphere is returned as "Northern" / "Southern"
inferHemisphere(options) ==
  IF options.hemisphere = NorthernStr THEN Return("Northern")
  ELSE IF options.hemisphere = SouthernStr THEN Return("Southern")
  ELSE IF TypeOf(options.latitude) = "number" /\ TypeOf(options.longitude) = "number"
  THEN Return(IF GeqZero(options.latitude) THEN "Northern" ELSE "Southern")
  ELSE IF ~Truthy(options.countryCode) THEN Return("Northern")
  ELSE LET southern == isSouthernCountry(options.countryCode)
       IN  IF southern.kind = "throw" THEN southern
           ELSE IF southern.value THEN Return("Southern")
           ELSE Return("Northern")

DecimalDigits == <<"0","1","2","3","4","5","6","7","8","9">>

DigitValue(c) == (CHOOSE i \in 1..10 : DecimalDigits[i] = c) - 1

\* Number(chars) for a string of decimal digits
RECURSIVE ToNumber(_)
ToNumber(chars) ==
  IF chars = <<>> THEN 0
  ELSE ToNumber(SubSeq(chars, 1, Len(chars) - 1)) * 10 + DigitValue(chars[Len(chars)])

\* String.prototype.split(sep) for a one-character separator
RECURSIVE Split(_, _)
Split(chars, sep) ==
  IF \E i \in 1..Len(chars) : chars[i] = sep
  THEN LET i == CHOOSE k \in 1..Len(chars) :
                  chars[k] = sep /\ \A j \in 1..(k - 1) : chars[j] # sep
       IN  <<SubSeq(chars, 1, i - 1)>> \o Split(SubSeq(chars, i + 1, Len(chars)), sep)
  ELSE <<chars>>

\* isDateInRange with the end boundary excluded
isDateInRangeExclusiveEnd(date, start, end) ==
  LET sParts   == Split(start, "-")
      eParts   == Split(end, "-")
      startNum == ToNumber(sParts[1]) * 100 + ToNumber(sParts[2])
      endNum   == ToNumber(eParts[1]) * 100 + ToNumber(eParts[2])
      curNum   == (date.month + 1) * 100 + date.date
  IN  IF startNum <= endNum
      THEN curNum >= startNum /\ curNum < endNum
      ELSE curNum >= startNum \/ curNum < endNum

\* isDateInRange with a range that crosses the year boundary treated as the others
isDateInRangeNoWrap(date, start, end) ==
  LET sParts   == Split(start, "-")
      eParts   == Split(end, "-")
      startNum == ToNumber(sParts[1]) * 100 + ToNumber(sParts[2])
      endNum   == ToNumber(eParts[1]) * 100 + ToNumber(eParts[2])
      curNum   == (date.month + 1) * 100 + date.date
  IN  curNum >= startNum /\ curNum <= endNum

\* isDateInRange(date, start, end); date is [month |-> getMonth(), date |-> getDate()]
isDateInRange(date, start, end) ==
  LET month    == date.month + 1
      day      == date.date
      sParts   == Split(start, "-")
      eParts   == Split(end, "-")
      startNum == ToNumber(sParts[1]) * 100 + ToNumber(sParts[2])
      endNum   == ToNumber(eParts[1]) * 100 + ToNumber(eParts[2])
      curNum   == month * 100 + day
  IN  IF startNum <= endNum
      THEN curNum >= startNum /\ curNum <= endNum
      ELSE curNum >= startNum \/ curNum <= endNum

Range(season, start, end) == [season |-> season, start |-> start, end |-> end]

\* seasonDefinitions[calendarType][hemisphere], its entries in insertion order
seasonDefinitions(calendarType, hemisphere) ==
  CASE calendarType = "Astronomical" /\ hemisphere = "Northern" ->
         << Range("Spring", <<"0","3","-","2","1">>, <<"0","6","-","2","0">>),
            Range("Summer", <<"0","6","-","2","1">>, <<"0","9","-","2","0">>),
            Range("Autumn", <<"0","9","-","2","1">>, <<"1","2","-","2","0">>),
            Range("Winter", <<"1","2","-","2","1">>, <<"0","3","-","2","0">>) >>
    [] calendarType = "Astronomical" /\ hemisphere = "Southern" ->
         << Range("Spring", <<"0","9","-","2","1">>, <<"1","2","-","2","0">>),
            Range("Summer", <<"1","2","-","2","1">>, <<"0","3","-","2","0">>),
            Range("Autumn", <<"0","3","-","2","1">>, <<"0","6","-","2","0">>),
            Range("Winter", <<"0","6","-","2","1">>, <<"0","9","-","2","0">>) >>
    [] calendarType = "Meteorological" /\ hemisphere = "Northern" ->
         << Range("Spring", <<"0","3","-","0","1">>, <<"0","5","-","3","1">>),
            Range("Summer", <<"0","6","-","0","1">>, <<"0","8","-","3","1">>),
            Range("Autumn", <<"0","9","-","0","1">>, <<"1","1","-","3","0">>),
            Range("Winter", <<"1","2","-","0","1">>, <<"0","2","-","2","9">>) >>
    [] calendarType = "Meteorological" /\ hemisphere = "Southern" ->
         << Range("Spring", <<"0","9","-","0","1">>, <<"1","1","-","3","0">>),
            Range("Summer", <<"1","2","-","0","1">>, <<"0","2","-","2","9">>),
            Range("Autumn", <<"0","3","-","0","1">>, <<"0","5","-","3","1">>),
            Range("Winter", <<"0","6","-","0","1">>, <<"0","8","-","3","1">>) >>

AstronomicalStr == Str(<<"A","s","t","r","o","n","o","m","i","c","a","l">>)

MeteorologicalStr == Str(<<"M","e","t","e","o","r","o","l","o","g","i","c","a","l">>)

\* The own keys of seasonDefinitions a calendarType value selects; any other
\* value selects undefined, and reading [hemisphere] of undefined raises.
CalendarKey(calendarType) ==
  IF calendarType = AstronomicalStr THEN "Astronomical"
  ELSE IF calendarType = MeteorologicalStr THEN "Meteorological"
  ELSE "undefined"

\* The first entry of defs whose range holds the date, else 'Unknown'
RECURSIVE FirstSeason(_, _)
FirstSeason(date, defs) ==
  IF defs = <<>> THEN "Unknown"
  ELSE IF isDateInRange(date, Head(defs).start, Head(defs).end) THEN Head(defs).season
  ELSE FirstSeason(date, Tail(defs))

\* getSeason that looks the ranges up under 'Northern' whatever the hemisphere is
getSeasonNorthernOnly(date, options) ==
  LET calendarType == IF options.calendarType = Undef THEN AstronomicalStr
                      ELSE options.calendarType
      hemisphere   == inferHemisphere(options)
  IN  IF hemisphere.kind = "throw" THEN hemisphere
      ELSE IF CalendarKey(calendarType) = "undefined" THEN Throw("TypeError")
      ELSE Return(FirstSeason(date,
                    seasonDefinitions(CalendarKey(calendarType), "Northern")))

\* getSeason(date, options)
getSeason(date, options) ==
  LET calendarType == IF options.calendarType = Undef THEN AstronomicalStr
                      ELSE options.calendarType
      hemisphere   == inferHemisphere(options)
  IN  IF hemisphere.kind = "throw" THEN hemisphere
      ELSE IF CalendarKey(calendarType) = "undefined" THEN Throw("TypeError")
      ELSE Return(FirstSeason(date,
                    seasonDefinitions(CalendarKey(calendarType), hemisphere.value)))

\* getSeason's default second argument, options = {}
NoOptions ==
  [calendarType |-> Undef, hemisphere |-> Undef, latitude |-> Undef,
   longitude |-> Undef, countryCode |-> Undef]

(***************************************************************************)
(* Inputs of the library API (SpecSeason)                                  *)
(***************************************************************************)
DaysInMonth == <<31, 29, 31, 30, 31, 30, 31, 31, 30, 31, 30, 31>>

\* The 366 calendar dates as a Date's (getMonth(), getDate())
Dates == { [month |-> m, date |-> d] : m \in 0..11, d \in 1..31 } \ 
         { dt \in { [month |-> m, date |-> d] : m \in 0..11, d \in 1..31 } :
             dt.date > DaysInMonth[dt.month + 1] }

HemisphereInputs ==
  { Undef, NorthernStr, SouthernStr, Str(<<"n","o","r","t","h","e","r","n">>),
    Str(<<>>), Num(1), JsNull }

LatitudeInputs == { Undef, Num(-5), Num(0), Num(10), NaN, Str(<<"-","5">>), JsNull }

LongitudeInputs == { Undef, Num(0), Num(30), NaN, Str(<<"3","0">>) }

CountryCodeInputs ==
  { Undef, JsNull, Str(<<>>), Str(<<"U","S">>), Str(<<"Z","A">>), Str(<<"z","a">>),
    Str(<<"Z","a">>), Str(<<"n","z">>), Str(<<"d","e">>), Str(<<"Z">>),
    Num(0), Num(5), JsTrue }

CalendarTypeInputs ==
  { Undef, AstronomicalStr, MeteorologicalStr,
    Str(<<"a","s","t","r","o","n","o","m","i","c","a","l">>), Str(<<"L","u","n","a","r">>),
    JsNull }

\* Every options object inferHemisphere is called with
HemisphereOptions ==
  [calendarType : {Undef}, hemisphere : HemisphereInputs, latitude : LatitudeInputs,
   longitude : LongitudeInputs, countryCode : CountryCodeInputs]

\* The options objects getSeason is called with on every date
SeasonOptions ==
  [calendarType : CalendarTypeInputs,
   hemisphere : {Undef, NorthernStr, SouthernStr},
   latitude : {Undef, Num(-5)},
   longitude : {Undef, Num(30)},
   countryCode : {Undef, Str(<<"z","a">>), Num(5)}]

(***************************************************************************)
(* snow.js                                                                 *)
(***************************************************************************)
\* throttle(..., 33)
ThrottleWait == 33

\* At most this many user toggles, over all tabs
MaxToggles == 2

\* At most this many resize events, over all tabs
MaxResize == 2

\* At most this many writes of other localStorage items by other documents
MaxForeign == 1

Tabs == {"A", "B"}

\* window.innerWidth x innerHeight, as one of two viewport sizes
Sizes == {1, 2}

\* Elapsed milliseconds one step of the clock may take
TickSteps == {11, 33}

\* Date.now() at page load: the (getMonth(), getDate()) a tab may load on
LoadDates ==
  { [month |-> 0, date |-> 15], [month |-> 2, date |-> 20], [month |-> 2, date |-> 21],
    [month |-> 6, date |-> 1], [month |-> 11, date |-> 20], [month |-> 11, date |-> 21] }

\* localStorage.getItem of a key that is not set
Null == "<null>"

\* Values the "snow" item may hold when the first tab opens
StoredValues == {Null, "snowfall", "none", "other"}

\* The values of the .snow-toggle__control radio inputs named "snow"
ControlValues == {"snowfall", "none"}

\* document.title of the page as loaded
pageTitle == <<"Title">>

NoTimer == -1

Msg(type, size) == [type |-> type, size |-> size]

VARIABLES
  call,      \* the library call to make (SpecSeason)
  result,    \* its outcome, once made
  storage,   \* localStorage item "snow", shared by the tabs
  nToggles,  \* user toggles so far
  nForeign,  \* writes of other localStorage items so far
  tab,       \* per tab: the page's state (DOM, worker channel, throttle closure)
  hist       \* per tab: history of the events handled

vars == <<call, result, storage, nToggles, nForeign, tab, hist>>

\* The constructor without its call of this.resize()
SnowfallWorkerNoResize(size) == <<Msg("canvas", 0)>>

\* new SnowfallWorker(canvas): the canvas transfer, then this.resize()
SnowfallWorker(size) == <<Msg("canvas", 0), Msg("resize", size)>>

\* snowfall.start()
start(worker) == Append(worker, Msg("start", 0))

\* snowfall.stop()
stop(worker) == Append(worker, Msg("stop", 0))

\* snowfall.resize()
resize(worker, size) == Append(worker, Msg("resize", size))

\* changeSnowAnimation that stops the animation and leaves the title as it is
changeSnowAnimationKeepsTitle(p, animationName) ==
  IF animationName = "none"
  THEN [p EXCEPT !.worker = Append(p.worker, Msg("stop", 0))]
  ELSE IF animationName = "snowfall"
  THEN [p EXCEPT !.worker = Append(p.worker, Msg("start", 0)),
                 !.title = <<"* ">> \o pageTitle]
  ELSE p

\* changeSnowAnimation with a plain else: whatever is not 'none' starts
changeSnowAnimationElseStarts(p, animationName) ==
  IF animationName = "none"
  THEN [p EXCEPT !.worker = Append(p.worker, Msg("stop", 0)), !.title = pageTitle]
  ELSE [p EXCEPT !.worker = Append(p.worker, Msg("start", 0)),
                 !.title = <<"* ">> \o pageTitle]

\* changeSnowAnimation that prefixes document.title instead of pageTitle
changeSnowAnimationStacksPrefix(p, animationName) ==
  IF animationName = "none"
  THEN [p EXCEPT !.worker = Append(p.worker, Msg("stop", 0)), !.title = pageTitle]
  ELSE IF animationName = "snowfall"
  THEN [p EXCEPT !.worker = Append(p.worker, Msg("start", 0)),
                 !.title = <<"* ">> \o p.title]
  ELSE p

\* changeSnowAnimation(animationName) on a page p
changeSnowAnimation(p, animationName) ==
  IF animationName = "none"
  THEN [p EXCEPT !.worker = stop(p.worker), !.title = pageTitle]
  ELSE IF animationName = "snowfall"
  THEN [p EXCEPT !.worker = start(p.worker), !.title = <<"* ">> \o pageTitle]
  ELSE p

\* throttle without its latch: every call goes through
throttleNoLatch(p) == [p EXCEPT !.worker = Append(p.worker, Msg("resize", p.viewport))]

\* throttle whose timer runs a third of the wait
throttleShortWait(p) ==
  IF ~p.waiting
  THEN [p EXCEPT !.worker = Append(p.worker, Msg("resize", p.viewport)),
                 !.waiting = TRUE,
                 !.timer = 11]
  ELSE p

\* The function throttle(func, wait) returns, called on a page p whose
\* viewport is already the new one; func is () => snowfall.resize()
throttle(p) ==
  IF ~p.waiting
  THEN [p EXCEPT !.worker = resize(p.worker, p.viewport),
                 !.waiting = TRUE,
                 !.timer = ThrottleWait]
  ELSE p

\* A setTimeout callback that also calls func: a trailing-edge flush
timeoutFlushes(p) ==
  [p EXCEPT !.waiting = FALSE, !.timer = NoTimer,
            !.worker = Append(p.worker, Msg("resize", p.viewport))]

\* The setTimeout callback of throttle
timeout(p) == [p EXCEPT !.waiting = FALSE, !.timer = NoTimer]

\* window.onload that restores a stored preference in every season
onloadAnySeason(p, date, currentStorage) ==
  LET isWinter == getSeason(date, NoOptions) = Return("Winter")
      p2       == [p EXCEPT !.worker = SnowfallWorker(p.viewport), !.isWinter = isWinter]
  IN  IF currentStorage # Null
      THEN IF currentStorage \in ControlValues
           THEN [changeSnowAnimation([p2 EXCEPT !.checked = currentStorage], currentStorage)
                   EXCEPT !.hidden = ~isWinter, !.pc = "loaded"]
           ELSE [p2 EXCEPT !.pc = "failed"]
      ELSE IF isWinter
      THEN [changeSnowAnimation([p2 EXCEPT !.checked = "snowfall"], "snowfall")
              EXCEPT !.hidden = ~isWinter, !.pc = "loaded"]
      ELSE [p2 EXCEPT !.hidden = ~isWinter, !.pc = "loaded"]

\* window.onload on a page p, for the date of new Date() and the stored item
onload(p, date, currentStorage) ==
  LET p1       == [p EXCEPT !.worker = SnowfallWorker(p.viewport)]
      isWinter == getSeason(date, NoOptions) = Return("Winter")
      p2       == [p1 EXCEPT !.isWinter = isWinter]
  IN  IF isWinter /\ currentStorage # Null
      THEN IF currentStorage \in ControlValues
           THEN [changeSnowAnimation([p2 EXCEPT !.checked = currentStorage], currentStorage)
                   EXCEPT !.hidden = ~isWinter, !.pc = "loaded"]
           \* querySelector returns null and setting .checked raises: the
           \* handler ends there, before any listener is registered
           ELSE [p2 EXCEPT !.pc = "failed"]
      ELSE IF isWinter
      THEN [changeSnowAnimation([p2 EXCEPT !.checked = "snowfall"], "snowfall")
              EXCEPT !.hidden = ~isWinter, !.pc = "loaded"]
      ELSE [p2 EXCEPT !.hidden = ~isWinter, !.pc = "loaded"]

\* The page before its load event
NewPage ==
  [pc |-> "unloaded", isWinter |-> FALSE, checked |-> "", hidden |-> FALSE,
   title |-> pageTitle, worker |-> <<>>, waiting |-> FALSE, timer |-> NoTimer,
   viewport |-> 1, inbox |-> <<>>]

\* The resize events a tab has handled. Of the throttle window that is open
\* (since the last expiry of the timer): the resize events fired in it, the
\* messages forwarded in it, the viewport of the first event. And whether
\* every event so far came after the expiry of the window before it.
\* The storage events it has handled, and the milliseconds since its worker
\* was last sent a resize message (counted up to the throttle's wait).
NoHistory ==
  [nEvents |-> 0, winEvents |-> 0, winFwd |-> 0, winFirst |-> 0, spaced |-> TRUE,
   nStorage |-> 0, sinceMsg |-> 0]

NoCall == [fn |-> "none", date |-> [month |-> 0, date |-> 1], options |-> NoOptions]

NotCalled == [kind |-> "none", value |-> "none"]

Init ==
  /\ call = NoCall
  /\ result = NotCalled
  /\ storage \in StoredValues
  /\ nToggles = 0
  /\ nForeign = 0
  /\ tab = [t \in Tabs |-> NewPage]
  /\ hist = [t \in Tabs |-> NoHistory]

(***************************************************************************)
(* The library API                                                         *)
(***************************************************************************)
CallInferHemisphere ==
  /\ call.fn = "inferHemisphere"
  /\ result = NotCalled
  /\ result' = inferHemisphere(call.options)
  /\ UNCHANGED <<call, storage, nToggles, nForeign, tab, hist>>

CallGetSeason ==
  /\ call.fn = "getSeason"
  /\ result = NotCalled
  /\ result' = getSeason(call.date, call.options)
  /\ UNCHANGED <<call, storage, nToggles, nForeign, tab, hist>>

NextSeason == CallInferHemisphere \/ CallGetSeason

\* Every call of the API on the enumerated inputs, not yet made
InitSeason ==
  /\ call \in [fn : {"inferHemisphere"}, date : {NoCall.date}, options : HemisphereOptions]
              \cup [fn : {"getSeason"}, date : Dates, options : SeasonOptions]
  /\ result = NotCalled
  /\ storage = Null
  /\ nToggles = 0
  /\ nForeign = 0
  /\ tab = [t \in Tabs |-> NewPage]
  /\ hist = [t \in Tabs |-> NoHistory]

SpecSeason == InitSeason /\ [][NextSeason]_vars

(***************************************************************************)
(* Claims about the library API, checked under SpecSeason                  *)
(***************************************************************************)
Seasons == {"Spring", "Summer", "Autumn", "Winter"}

Called(fn) == call.fn = fn /\ result # NotCalled

\* The calendarType a getSeason call resolves to
CallCalendar ==
  CalendarKey(IF call.options.calendarType = Undef THEN AstronomicalStr
              ELSE call.options.calendarType)

\* month * 100 + day of the call's date
CallDay == (call.date.month + 1) * 100 + call.date.date

\* An inclusive range of month * 100 + day numbers, wrapping when from > to
Within(day, from, to) ==
  IF from <= to THEN from <= day /\ day <= to ELSE day >= from \/ day <= to

\* The boundaries a "MM-DD" string of the table states
DayOf(mmdd) == ToNumber(SubSeq(mmdd, 1, 2)) * 100 + ToNumber(SubSeq(mmdd, 4, 5))

\* The ranges of seasonDefinitions[calendarType][hemisphere] that hold the day
RangesHolding(day, calendarType, hemisphere) ==
  LET defs == seasonDefinitions(calendarType, hemisphere)
  IN  { i \in 1..Len(defs) : Within(day, DayOf(defs[i].start), DayOf(defs[i].end)) }

\* C1: on each of the 366 dates and for each (calendarType, hemisphere) pair,
\* exactly one of the four ranges of seasonDefinitions holds the date, and
\* getSeason returns one of Spring, Summer, Autumn, Winter, never 'Unknown'.
C1_SeasonsPartitionYear ==
  (Called("getSeason") /\ CallCalendar # "undefined"
     /\ inferHemisphere(call.options).kind = "return")
  => /\ Len(seasonDefinitions(CallCalendar, inferHemisphere(call.options).value)) = 4
     /\ Cardinality(RangesHolding(CallDay, CallCalendar,
                                  inferHemisphere(call.options).value)) = 1
     /\ result.kind = "return"
     /\ result.value \in Seasons

\* Feb 29 under (Meteorological, Southern) has been classified
C1_Witness ==
  /\ Called("getSeason")
  /\ call.date = [month |-> 1, date |-> 29]
  /\ call.options.calendarType = MeteorologicalStr
  /\ call.options.hemisphere = SouthernStr
  /\ result = Return("Summer")

\* The fixed season table of the specification, as <<from, to>> of month * 100 + day
SpecSeasonTable(calendarType, hemisphere) ==
  CASE calendarType = "Astronomical" /\ hemisphere = "Northern" ->
         [Spring |-> <<321, 620>>, Summer |-> <<621, 920>>,
          Autumn |-> <<921, 1220>>, Winter |-> <<1221, 320>>]
    [] calendarType = "Astronomical" /\ hemisphere = "Southern" ->
         [Spring |-> <<921, 1220>>, Summer |-> <<1221, 320>>,
          Autumn |-> <<321, 620>>, Winter |-> <<621, 920>>]
    [] calendarType = "Meteorological" /\ hemisphere = "Northern" ->
         [Spring |-> <<301, 531>>, Summer |-> <<601, 831>>,
          Autumn |-> <<901, 1130>>, Winter |-> <<1201, 229>>]
    [] calendarType = "Meteorological" /\ hemisphere = "Southern" ->
         [Spring |-> <<901, 1130>>, Summer |-> <<1201, 229>>,
          Autumn |-> <<301, 531>>, Winter |-> <<601, 831>>]

\* The options of the call are the default ones but for the calendarType
DefaultBut(calendarType) == call.options = [NoOptions EXCEPT !.calendarType = calendarType]

\* C2: getSeason returns the season whose inclusive range in the fixed season
\* table holds the date (a range with start > end holds it iff current >= start
\* or current <= end). With default options Dec-21..Mar-20 is Winter and Mar-21
\* is Spring; Mar-01 is Spring under Meteorological, Winter under Astronomical.
C2_SeasonOfTable ==
  (Called("getSeason") /\ CallCalendar # "undefined"
     /\ inferHemisphere(call.options).kind = "return")
  => LET table == SpecSeasonTable(CallCalendar, inferHemisphere(call.options).value)
     IN  /\ result.kind = "return"
         /\ \A season \in Seasons :
              result.value = season <=> Within(CallDay, table[season][1], table[season][2])
         /\ (DefaultBut(Undef) /\ (CallDay >= 1221 \/ CallDay <= 320))
              => result.value = "Winter"
         /\ (DefaultBut(Undef) /\ CallDay = 321) => result.value = "Spring"
         /\ (DefaultBut(MeteorologicalStr) /\ CallDay = 301) => result.value = "Spring"
         /\ (DefaultBut(Undef) /\ CallDay = 301) => result.value = "Winter"

\* Mar-20 has been classified with default options: the end of the wrapping range
C2_Witness ==
  /\ Called("getSeason")
  /\ call.options = NoOptions
  /\ call.date = [month |-> 2, date |-> 20]
  /\ result = Return("Winter")

SameLetter(a, b) ==
  \/ a = b
  \/ \E i \in 1..26 : {a, b} = {LowerCaseLetters[i], UpperCaseLetters[i]}

\* chars is, letter case apart, a code of the Southern list
MatchesSouthern(chars) ==
  \E code \in southernCountryCodes :
    /\ Len(code) = Len(chars)
    /\ \A i \in 1..Len(code) : SameLetter(code[i], chars[i])

ExplicitHemisphere(o) == o.hemisphere \in {NorthernStr, SouthernStr}

NumericCoordinates(o) == TypeOf(o.latitude) = "number" /\ TypeOf(o.longitude) = "number"

\* countryCode is absent or a string, as SeasonOptions declares it
CountryCodeTyped(o) == o.countryCode = Undef \/ TypeOf(o.countryCode) = "string"

\* C3: inferHemisphere follows the precedence, first match wins: (1) an explicit
\* 'Northern' / 'Southern' hemisphere, whatever the coordinates and countryCode
\* are; (2) else, latitude and longitude both numbers: Northern iff latitude >= 0,
\* whatever countryCode is; (3) else Southern iff countryCode matches a Southern
\* code case-insensitively; (4) else Northern.
C3_HemispherePrecedence ==
  Called("inferHemisphere")
  => LET o == call.options
     IN  IF ExplicitHemisphere(o)
         THEN result = Return(IF o.hemisphere = NorthernStr THEN "Northern" ELSE "Southern")
         ELSE IF NumericCoordinates(o)
         THEN result = Return(IF o.latitude.t = "number" /\ o.latitude.n >= 0
                              THEN "Northern" ELSE "Southern")
         ELSE CountryCodeTyped(o)
              => result = Return(IF MatchesSouthern(o.countryCode.s)
                                 THEN "Southern" ELSE "Northern")

\* An explicit Southern hemisphere has won over a Northern latitude
C3_Witness ==
  /\ Called("inferHemisphere")
  /\ call.options.hemisphere = SouthernStr
  /\ call.options.latitude = Num(10)
  /\ call.options.longitude = Num(30)
  /\ call.options.countryCode = Str(<<"U","S">>)
  /\ result = Return("Southern")

NegativeLatitude(o) == o.latitude.t = "number" /\ o.latitude.n < 0

NorthernCountry(o) == TypeOf(o.countryCode) = "string" /\ Truthy(o.countryCode)
                      /\ ~MatchesSouthern(o.countryCode.s)

\* C4 as stated: with no explicit hemisphere, a negative numeric latitude and a
\* Northern countryCode resolve to Southern, a longitude given or not.
C4_LatitudeAloneWins ==
  (Called("inferHemisphere") /\ ~ExplicitHemisphere(call.options)
     /\ NegativeLatitude(call.options) /\ NorthernCountry(call.options))
  => result = Return("Southern")

\* C4 amended: with no explicit hemisphere, a negative numeric latitude and a
\* Northern countryCode resolve to Southern when the longitude is a number too,
\* and to Northern (the country code decides) when it is not.
C4_CoordinatesPairWins ==
  (Called("inferHemisphere") /\ ~ExplicitHemisphere(call.options)
     /\ NegativeLatitude(call.options) /\ NorthernCountry(call.options))
  => result = Return(IF TypeOf(call.options.longitude) = "number"
                     THEN "Southern" ELSE "Northern")

\* {latitude: -5, longitude: 30, countryCode: "US"} has resolved to Southern
C4_Witness ==
  /\ Called("inferHemisphere")
  /\ call.options = [NoOptions EXCEPT !.latitude = Num(-5), !.longitude = Num(30),
                                      !.countryCode = Str(<<"U","S">>)]
  /\ result = Return("Southern")

\* C5: getSeason called with a calendarType that is neither 'Astronomical' nor
\* 'Meteorological' returns 'Unknown' and raises nothing.
C5_UnknownCalendarType ==
  (Called("getSeason") /\ CallCalendar = "undefined")
  => result = Return("Unknown")

\* C6: inferHemisphere has no error outcome: whatever the presence and type of
\* hemisphere, latitude, longitude and countryCode, it returns 'Northern' or
\* 'Southern'.
C6_HemisphereNeverRaises ==
  Called("inferHemisphere")
  => result.kind = "return" /\ result.value \in {"Northern", "Southern"}

\* The season half a year away
Opposite(season) ==
  CASE season = "Spring" -> "Autumn"
    [] season = "Autumn" -> "Spring"
    [] season = "Summer" -> "Winter"
    [] season = "Winter" -> "Summer"
    [] OTHER -> "none"

\* The call's options with the other hemisphere given
OtherHemisphere ==
  [call.options EXCEPT !.hemisphere = IF @ = SouthernStr THEN NorthernStr ELSE SouthernStr]

\* C13: on every date and for each calendarType, the season getSeason returns
\* for hemisphere 'Southern' is the opposite of the one it returns for
\* 'Northern' (Spring <-> Autumn, Summer <-> Winter); Dec-25 is Winter in the
\* North and Summer in the South.
C13_SouthernMirrors ==
  (Called("getSeason") /\ CallCalendar # "undefined" /\ ExplicitHemisphere(call.options))
  => /\ result.kind = "return"
     /\ result.value \in Seasons
     /\ getSeason(call.date, OtherHemisphere) = Return(Opposite(result.value))
     /\ CallDay = 1225
          => result.value = (IF call.options.hemisphere = NorthernStr
                             THEN "Winter" ELSE "Summer")

\* Dec-25 has been classified for the Southern hemisphere
C13_Witness ==
  /\ Called("getSeason")
  /\ call.date = [month |-> 11, date |-> 25]
  /\ call.options = [NoOptions EXCEPT !.hemisphere = SouthernStr]
  /\ result = Return("Summer")

(***************************************************************************)
(* The tabs                                                                *)
(***************************************************************************)
RECURSIVE CountType(_, _)
CountType(worker, type) ==
  IF worker = <<>> THEN 0
  ELSE (IF Head(worker).type = type THEN 1 ELSE 0) + CountType(Tail(worker), type)

\* Resize events so far, over all tabs
RECURSIVE SumEvents(_)
SumEvents(ts) ==
  IF ts = {} THEN 0
  ELSE LET t == CHOOSE x \in ts : TRUE IN hist[t].nEvents + SumEvents(ts \ {t})

nResize == SumEvents(Tabs)

\* What a storage event for another key than "snow" carries
OtherItem == "<other item>"

\* localStorage.setItem(storageKey, value): the item afterwards
setItem(item, value) == value

\* A setItem that queues no storage event
notifyNobody(p, item, value) == p

\* The storage events setItem queues: one for every other page that listens,
\* when the item's value changes
notify(p, item, value) ==
  IF p.pc = "loaded" /\ item # value THEN [p EXCEPT !.inbox = Append(@, value)] ELSE p

\* A window.onload that stores the winter default
onloadItemPersistsDefault(date, currentStorage) ==
  IF getSeason(date, NoOptions) = Return("Winter") /\ currentStorage = Null
  THEN "snowfall"
  ELSE currentStorage

\* The item "snow" once window.onload has run: it is read, never written
onloadItem(date, currentStorage) == currentStorage

\* The load event of tab t
Load(t) ==
  \E date \in LoadDates :
    /\ tab[t].pc = "unloaded"
    /\ tab' = [tab EXCEPT ![t] = onload(@, date, storage)]
    /\ storage' = onloadItem(date, storage)
    /\ hist' = [hist EXCEPT ![t] = [@ EXCEPT !.sinceMsg = 0]]
    /\ UNCHANGED <<call, result, nToggles, nForeign>>

\* The user checks the radio control of value v in tab t: its change listener.
\* A hidden toggle cannot be operated, and a checked radio fires no change.
Change(t, v) ==
  /\ tab[t].pc = "loaded"
  /\ ~tab[t].hidden
  /\ tab[t].checked # v
  /\ nToggles < MaxToggles
  /\ nToggles' = nToggles + 1
  /\ storage' = setItem(storage, v)
  /\ tab' = [u \in Tabs |->
               IF u = t THEN changeSnowAnimation([tab[t] EXCEPT !.checked = v], v)
               ELSE notify(tab[u], storage, storage')]
  /\ UNCHANGED <<call, result, nForeign, hist>>

\* Tab t handles its oldest pending storage event: the storage listener
Storage(t) ==
  /\ tab[t].pc = "loaded"
  /\ tab[t].inbox # <<>>
  /\ tab' = [tab EXCEPT ![t] = changeSnowAnimation([@ EXCEPT !.inbox = Tail(@)], storage)]
  /\ hist' = [hist EXCEPT ![t] = [@ EXCEPT !.nStorage = @ + 1]]
  /\ UNCHANGED <<call, result, storage, nToggles, nForeign>>

\* The viewport of tab t becomes s: the throttled resize listener
Resize(t, s) ==
  /\ tab[t].pc = "loaded"
  /\ nResize < MaxResize
  /\ s # tab[t].viewport
  /\ tab' = [tab EXCEPT ![t] = throttle([@ EXCEPT !.viewport = s])]
  /\ hist' = [hist EXCEPT ![t] =
                [@ EXCEPT !.nEvents = @ + 1,
                          !.winEvents = @ + 1,
                          !.winFwd = @ + CountType(tab'[t].worker, "resize")
                                       - CountType(tab[t].worker, "resize"),
                          !.winFirst = IF hist[t].winEvents = 0 THEN s ELSE @,
                          !.spaced = @ /\ hist[t].winEvents = 0,
                          !.sinceMsg = IF tab'[t].worker # tab[t].worker THEN 0 ELSE @]]
  /\ UNCHANGED <<call, result, storage, nToggles, nForeign>>

\* The timer of tab t's throttle fires, at its deadline or later
Timeout(t) ==
  /\ tab[t].timer = 0
  /\ tab' = [tab EXCEPT ![t] = timeout(@)]
  /\ hist' = [hist EXCEPT ![t] =
                [@ EXCEPT !.winEvents = 0, !.winFwd = 0, !.winFirst = 0]]
  /\ UNCHANGED <<call, result, storage, nToggles, nForeign>>

\* d milliseconds pass
Tick(d) ==
  /\ \E t \in Tabs :
       tab[t].timer > 0 \/ (tab[t].pc = "loaded" /\ hist[t].sinceMsg < ThrottleWait)
  /\ tab' = [t \in Tabs |->
               [tab[t] EXCEPT !.timer = IF @ > d THEN @ - d ELSE IF @ > 0 THEN 0 ELSE @]]
  /\ hist' = [t \in Tabs |->
                [hist[t] EXCEPT !.sinceMsg =
                   IF tab[t].pc # "loaded" THEN @
                   ELSE IF @ + d > ThrottleWait THEN ThrottleWait ELSE @ + d]]
  /\ UNCHANGED <<call, result, storage, nToggles, nForeign>>

\* Another document of the origin writes another item of localStorage: every
\* page that listens gets a storage event, whatever the key is
OtherItemWrite ==
  /\ nForeign < MaxForeign
  /\ \E t \in Tabs : tab[t].pc = "loaded"
  /\ nForeign' = nForeign + 1
  /\ tab' = [t \in Tabs |->
               IF tab[t].pc = "loaded" THEN [tab[t] EXCEPT !.inbox = Append(@, OtherItem)]
               ELSE tab[t]]
  /\ UNCHANGED <<call, result, storage, nToggles, hist>>

Next ==
  \/ \E t \in Tabs : Load(t)
  \/ \E t \in Tabs, v \in ControlValues : Change(t, v)
  \/ \E t \in Tabs : Storage(t)
  \/ \E t \in Tabs, s \in Sizes : Resize(t, s)
  \/ \E t \in Tabs : Timeout(t)
  \/ \E d \in TickSteps : Tick(d)

\* The tabs while no other document writes localStorage
Spec == Init /\ [][Next]_vars

NextSync ==
  \/ \E t \in Tabs : Load(t)
  \/ \E t \in Tabs, v \in ControlValues : Change(t, v)
  \/ \E t \in Tabs : Storage(t)
  \/ OtherItemWrite

\* The tabs while the viewport keeps its size and other documents of the
\* origin write other items of localStorage
SpecSync == Init /\ [][NextSync]_vars

(***************************************************************************)
(* Claims about the tabs, checked under Spec                               *)
(***************************************************************************)
\* The last start / stop command a worker was sent; none counts as stop
RECURSIVE LastCommand(_)
LastCommand(worker) ==
  IF worker = <<>> THEN "stop"
  ELSE IF worker[Len(worker)].type \in {"start", "stop"} THEN worker[Len(worker)].type
  ELSE LastCommand(SubSeq(worker, 1, Len(worker) - 1))

\* The animation state of a page: Running or Stopped
Running(p) == LastCommand(p.worker) = "start"

Prefixed == <<"* ">> \o pageTitle

\* The state a page is in once the preference v has been applied to it
Applied(p, v) ==
  /\ Running(p) <=> v = "snowfall"
  /\ p.title = (IF v = "snowfall" THEN Prefixed ELSE pageTitle)

\* C7: right after initialization: isWinter and stored 'snowfall' gives Running,
\* the 'snowfall' control checked, the title prefixed; isWinter and stored 'none'
\* gives Stopped, the 'none' control checked, the plain title; isWinter and no
\* stored preference gives Running with 'snowfall' checked; not isWinter gives
\* Stopped, no start message and no control checked, whatever is stored.
C7_InitDecisionTable ==
  [][\A t \in Tabs :
       (tab[t].pc = "unloaded" /\ tab'[t].pc # "unloaded")
       => LET p == tab'[t]
          IN  /\ (p.isWinter /\ storage = "snowfall")
                   => (Running(p) /\ p.checked = "snowfall" /\ p.title = Prefixed)
              /\ (p.isWinter /\ storage = "none")
                   => (~Running(p) /\ p.checked = "none" /\ p.title = pageTitle)
              /\ (p.isWinter /\ storage = Null)
                   => (Running(p) /\ p.checked = "snowfall")
              /\ ~p.isWinter
                   => (/\ ~Running(p)
                       /\ CountType(p.worker, "start") = 0
                       /\ p.checked = ""
                       /\ p.title = pageTitle)]_vars

\* A tab has loaded in winter with nothing stored and runs by default, while
\* another has loaded outside winter with 'snowfall' stored and stays stopped
C7_Witness ==
  \E t, u \in Tabs :
    /\ nToggles = 0
    /\ tab[t].pc = "loaded" /\ tab[t].isWinter
    /\ tab[t].worker = <<Msg("canvas", 0), Msg("resize", 1), Msg("start", 0)>>
    /\ tab[t].checked = "snowfall"
    /\ tab[u].pc = "loaded" /\ ~tab[u].isWinter
    /\ tab[u].worker = <<Msg("canvas", 0), Msg("resize", 1)>>
    /\ storage = Null

\* The size of the last resize message a worker was sent
RECURSIVE LastResize(_)
LastResize(worker) ==
  IF worker = <<>> THEN 0
  ELSE IF worker[Len(worker)].type = "resize" THEN worker[Len(worker)].size
  ELSE LastResize(SubSeq(worker, 1, Len(worker) - 1))

\* C8: the N >= 1 resize events fired while one throttle window is open (from
\* the first of them until the timer fires) forward exactly one resize message,
\* the one for the first event; N resize events each separated from the one
\* before by an expiry of the window forward N resize messages.
C8_Throttle ==
  \A t \in Tabs :
    /\ hist[t].winEvents >= 1
         => /\ hist[t].winFwd = 1
            /\ LastResize(tab[t].worker) = hist[t].winFirst
    /\ (tab[t].pc = "loaded" /\ hist[t].spaced)
         => CountType(tab[t].worker, "resize") = 1 + hist[t].nEvents

\* Two resize events have fired in one window, the second for another viewport
C8_Witness ==
  \E t \in Tabs :
    /\ hist[t].winEvents = 2
    /\ tab[t].viewport # hist[t].winFirst
    /\ CountType(tab[t].worker, "resize") = 2

\* C9: of the messages a tab sends to its worker the first is the canvas
\* transfer, the second a resize, and no canvas message occurs again: no start,
\* stop or resize is sent before the canvas.
C9_CanvasFirstOnce ==
  \A t \in Tabs :
    LET worker == tab[t].worker
    IN  /\ tab[t].pc = "unloaded" <=> worker = <<>>
        /\ worker # <<>>
             => /\ Len(worker) >= 2
                /\ worker[1].type = "canvas"
                /\ worker[2].type = "resize"
                /\ \A i \in 2..Len(worker) : worker[i].type # "canvas"

\* A worker has been sent a start, a stop and a throttled resize after its two
\* first messages
C9_Witness ==
  \E t \in Tabs :
    /\ CountType(tab[t].worker, "start") >= 1
    /\ CountType(tab[t].worker, "stop") >= 1
    /\ CountType(tab[t].worker, "resize") >= 2

\* C10: a user toggle to v persists v and leaves the toggling tab Running with
\* the prefixed title iff v = 'snowfall', Stopped with the plain title iff
\* v = 'none'; a second tab that handles the change notification of that write
\* and reads v back ends in the same animation state and title.
C10_PreferenceRoundTrip ==
  [][\A t \in Tabs :
       /\ (nToggles' = nToggles + 1 /\ tab'[t].checked # tab[t].checked)
            => /\ storage' = tab'[t].checked
               /\ Applied(tab'[t], tab'[t].checked)
               /\ \A u \in Tabs \ {t} :
                    (tab[u].pc = "loaded" /\ storage # storage')
                    => tab'[u].inbox = Append(tab[u].inbox, storage')
       /\ (Len(tab'[t].inbox) < Len(tab[t].inbox) /\ storage = Head(tab[t].inbox))
            => Applied(tab'[t], Head(tab[t].inbox))]_vars

\* One tab has toggled to 'snowfall' and the other, loaded with 'none' stored,
\* has handled the notification: both run with the prefixed title
C10_Witness ==
  \E t, u \in Tabs :
    /\ storage = "snowfall"
    /\ tab[t].checked = "snowfall" /\ Running(tab[t]) /\ tab[t].title = Prefixed
    /\ tab[u].checked = "none" /\ tab[u].inbox = <<>>
    /\ Running(tab[u]) /\ tab[u].title = Prefixed
    /\ LastCommand(SubSeq(tab[u].worker, 1, Len(tab[u].worker) - 1)) = "stop"
    /\ CountType(tab[u].worker, "stop") = 1

(***************************************************************************)
(* Claims about the tabs in step, checked under Spec and SpecSync          *)
(***************************************************************************)
\* Every tab has run window.onload and no storage event is pending
Settled ==
  /\ \A t \in Tabs : tab[t].pc # "unloaded"
  /\ \A t \in Tabs : tab[t].inbox = <<>>

\* A tab that went through window.onload in winter
WinterTab(t) == tab[t].pc = "loaded" /\ tab[t].isWinter

\* C11 as stated: once every tab is open and every pending notification is
\* delivered, every tab is Running iff the persisted preference is 'snowfall'.
C11_AllTabsConverge ==
  Settled => \A t \in Tabs : tab[t].pc = "loaded" => (Running(tab[t]) <=> storage = "snowfall")

\* C11: once every pending notification is delivered, the tabs initialized in
\* winter are all in the same animation state: Running iff the persisted
\* preference is 'snowfall' when one of 'snowfall' and 'none' is persisted,
\* Running by default while none is persisted.
C11_WinterTabsConverge ==
  /\ (Settled /\ storage \in ControlValues)
       => \A t \in Tabs : WinterTab(t) => (Running(tab[t]) <=> storage = "snowfall")
  /\ storage = Null => \A t \in Tabs : WinterTab(t) => Running(tab[t])

\* One tab was toggled to 'none' and back to 'snowfall' before the other, a
\* winter tab too, handled either notification: it has handled both since
C11_Witness ==
  \E t, u \in Tabs :
    /\ t # u
    /\ WinterTab(t) /\ WinterTab(u)
    /\ nToggles = 2
    /\ storage = "snowfall"
    /\ hist[u].nStorage = 2 /\ hist[t].nStorage = 0
    /\ Settled
    /\ Running(tab[t]) /\ Running(tab[u])

\* C12: only a user toggle writes the persisted preference: window.onload (the
\* winter default included), the storage listener, a resize event and the
\* throttle's timer leave it as it is, and nothing deletes it.
C12_OnlyToggleWrites ==
  [][/\ nToggles' = nToggles => storage' = storage
     /\ \A t \in Tabs :
          (\/ tab[t].pc = "unloaded" /\ tab'[t].pc # "unloaded"
           \/ Len(tab'[t].inbox) < Len(tab[t].inbox)
           \/ hist'[t].nEvents # hist[t].nEvents
           \/ tab[t].waiting /\ ~tab'[t].waiting)
          => storage' = storage
     /\ storage # Null => storage' # Null]_vars

\* A tab runs by the winter default and has handled resize events and the
\* expiry of the window they opened, and still nothing is persisted
C12_Witness ==
  \E t \in Tabs :
    /\ WinterTab(t) /\ tab[t].checked = "snowfall" /\ Running(tab[t])
    /\ hist[t].nEvents >= 1 /\ hist[t].winEvents = 0 /\ ~tab[t].waiting
    /\ storage = Null

\* C14: a storage event handled while the preference is absent, or is neither
\* 'snowfall' nor 'none', raises nothing, sends the worker no message and
\* leaves the animation state and the title as they are.
C14_AbsentPreferenceNoError ==
  [][\A t \in Tabs :
       (Len(tab'[t].inbox) < Len(tab[t].inbox) /\ storage \notin ControlValues)
       => tab'[t] = [tab[t] EXCEPT !.inbox = Tail(@)]]_vars

\* A tab that runs by the winter default has handled a storage event with
\* nothing persisted, and runs on
C14_Witness ==
  \E t \in Tabs :
    /\ WinterTab(t)
    /\ hist[t].nStorage >= 1
    /\ storage = Null
    /\ tab[t].worker = <<Msg("canvas", 0), Msg("resize", 1), Msg("start", 0)>>
    /\ tab[t].title = Prefixed

\* C15 as stated: a tab in which isWinter was false at page load stays
\* Stopped: no start message is ever sent and the title is never prefixed,
\* whatever events it handles and whatever is persisted.
C15_NonWinterStaysStopped ==
  \A t \in Tabs :
    (tab[t].pc = "loaded" /\ ~tab[t].isWinter)
    => /\ CountType(tab[t].worker, "start") = 0
       /\ tab[t].title = pageTitle

\* C16: the expiry of the throttle window clears the latch and sends the
\* worker nothing; a resize message is sent after initialization only by a
\* resize event, for the viewport of that event, so that the messages sent
\* after initialization never outnumber the events.
C16_NoTrailingFlush ==
  [][\A t \in Tabs :
       /\ (tab[t].waiting /\ ~tab'[t].waiting)
            => tab'[t] = [tab[t] EXCEPT !.waiting = FALSE, !.timer = NoTimer]
       /\ (/\ tab[t].pc = "loaded"
           /\ CountType(tab'[t].worker, "resize") # CountType(tab[t].worker, "resize"))
            => /\ hist'[t].nEvents = hist[t].nEvents + 1
               /\ tab'[t].worker = Append(tab[t].worker, Msg("resize", tab'[t].viewport))
       /\ tab'[t].pc = "loaded"
            => CountType(tab'[t].worker, "resize") - 1 <= hist'[t].nEvents]_vars

\* The second of two resize events was suppressed and the window has expired:
\* the worker still has the size of the first, which is not the viewport's
C16_Witness ==
  \E t \in Tabs :
    /\ hist[t].nEvents = 2
    /\ CountType(tab[t].worker, "resize") = 2
    /\ ~tab[t].waiting /\ tab[t].timer = NoTimer /\ hist[t].winEvents = 0
    /\ LastResize(tab[t].worker) # tab[t].viewport

\* C17 as stated: between any two consecutive resize messages sent to the
\* worker, the one sent during initialization included, 33 ms elapse.
C17_EveryResizeSpaced ==
  [][\A t \in Tabs :
       (/\ tab[t].pc = "loaded"
        /\ CountType(tab'[t].worker, "resize") > CountType(tab[t].worker, "resize"))
       => hist[t].sinceMsg >= ThrottleWait]_vars

\* C17: between any two consecutive resize messages the resize listener
\* forwards, 33 ms elapse; the message sent during initialization opens no
\* window.
C17_ForwardedResizeSpaced ==
  [][\A t \in Tabs :
       (/\ tab[t].pc = "loaded"
        /\ CountType(tab[t].worker, "resize") >= 2
        /\ CountType(tab'[t].worker, "resize") > CountType(tab[t].worker, "resize"))
       => hist[t].sinceMsg >= ThrottleWait]_vars

\* The resize listener has forwarded two messages
C17_Witness ==
  \E t \in Tabs :
    /\ CountType(tab[t].worker, "resize") = 3
    /\ hist[t].nEvents = 2
    /\ hist[t].spaced
    /\ hist[t].sinceMsg = 0

\* C18: in every state of a tab the title is the original title or the
\* indicator followed by the original title, the latter iff the last start or
\* stop command sent to the worker is start.
C18_TitleTracksAnimation ==
  \A t \in Tabs :
    /\ tab[t].title \in {pageTitle, Prefixed}
    /\ tab[t].title = Prefixed <=> Running(tab[t])

\* A tab has applied 'snowfall' twice in a row and its title has one prefix
C18_Witness ==
  \E t \in Tabs :
    LET worker == tab[t].worker
    IN  /\ Len(worker) >= 4
        /\ worker[Len(worker)].type = "start"
        /\ worker[Len(worker) - 1].type = "start"
        /\ tab[t].title = Prefixed

\* C19 as stated: in every state of a winter tab after initialization the
\* checked control agrees with the animation state.
C19_ControlAgrees ==
  \A t \in Tabs :
    WinterTab(t)
    => /\ tab[t].checked = "snowfall" <=> Running(tab[t])
       /\ tab[t].checked = "none" <=> ~Running(tab[t])

====
